---- MODULE Spec2Model ----
(***************************************************************************)
(* Reconciliation of a Syncthing daemon's configuration document by the    *)
(* three mutating Ansible modules syncthing_device, syncthing_folder and   *)
(* syncthing_gui.  The daemon's document is the only shared state; every   *)
(* invocation is a sequential fetch / modify / post cycle.                 *)
(***************************************************************************)
EXTENDS Integers, Sequences, FiniteSets, TLC

VARIABLES
    config,   \* the configuration document held by the daemon (/rest/system/config)
    last,     \* the record of the most recent module invocation and its result
    runs,     \* number of invocations performed so far
    runners,  \* two invocations in progress at the same time, request by request
    endpoint  \* the module parameters and files behind make_headers

vars == <<config, last, runs, runners, endpoint>>

----------------------------------------------------------------------------
(* Bounds and input domains                                                *)

MaxRuns == 2

\* Python's None for an optional string parameter.
None == "<None>"

\* The local daemon's own device id (myID of /rest/system/status).
MyID == "LLLL-0000"

\* Every string that can end up in a folder's device list, in the code-point
\* order Python's sorted() uses for str (upper case before lower case).
LexOrder == << "AAAA-1111", "BBBB-2222", "CCCC-3333", "False",
               "LLLL-0000", "ZZZZ-9999", "laptop", "nas" >>

\* state=dict(type='str', default='present', choices=['absent', 'present', 'pause'])
StateChoices == {"absent", "present", "pause"}

DeviceIdInputs == {"AAAA-1111", "BBBB-2222"}
DeviceNameInputs == {None, "laptop"}

\* Outcome of the HTTP exchanges of one invocation: every request answers
\* 200, or the named request is the first one that does not.
NetOutcomes == {"ok", "get_config_fails", "get_status_fails", "post_fails"}

\* syncthing_device and syncthing_gui never request the status document.
ConfigOnlyNetOutcomes == NetOutcomes \ {"get_status_fails"}

----------------------------------------------------------------------------
(* Generic helpers for Python lists and sets                               *)

Range(s) == {s[i] : i \in 1..Len(s)}

\* list.pop(idx) taken for a truncation at idx.
PopAtTruncates(s, i) == [j \in 1..(i - 1) |-> s[j]]

\* list.pop(idx) with a 1-based index
PopAt(s, i) == [j \in 1..(Len(s) - 1) |-> IF j < i THEN s[j] ELSE s[j + 1]]

\* Position of str x in the code-point order.
Rank(x) == CHOOSE i \in 1..Len(LexOrder) : LexOrder[i] = x

\* The smallest element of a non-empty set of str.
MinStr(S) == CHOOSE x \in S : \A y \in S : Rank(x) <= Rank(y)

RECURSIVE sorted(_)
\* sorted(a_set): the list of its elements in ascending order.
sorted(S) == IF S = {} THEN <<>>
             ELSE LET m == MinStr(S) IN <<m>> \o sorted(S \ {m})

\* yaml.safe_dump(value): a serialised snapshot, taken at the time of the call.
safe_dump(v) == [yaml |-> v]

----------------------------------------------------------------------------
(* syncthing_device                                                        *)

\* create_device(params): the record appended for an unknown device id.
create_device(params) ==
    [ addresses                |-> <<"dynamic">>,
      allowedNetworks          |-> <<>>,
      autoAcceptFolders        |-> FALSE,
      certName                 |-> "",
      compression              |-> "metadata",
      deviceID                 |-> params.id,
      ignoredFolders           |-> <<>>,
      introducedBy             |-> "",
      introducer               |-> FALSE,
      maxRecvKbps              |-> 0,
      maxSendKbps              |-> 0,
      name                     |-> params.name,
      paused                   |-> IF params.state = "paused" THEN TRUE ELSE FALSE,
      pendingFolders           |-> <<>>,
      skipIntroductionRemovals |-> FALSE ]

\* The search of config['devices'] that never finds the id.
device_index_never_finds(devices, id) == 0

\* 1-based index of the first device whose deviceID is id, 0 when none
\* (the for loops over config['devices'] with their break).
device_index(devices, id) ==
    IF \E i \in 1..Len(devices) : devices[i].deviceID = id
    THEN CHOOSE i \in 1..Len(devices) :
            /\ devices[i].deviceID = id
            /\ \A j \in 1..(i - 1) : devices[j].deviceID # id
    ELSE 0

\* device_name_missing without the test on the state.
device_name_always_required(params) == params.name \in {None, ""}

\* if module.params['state'] != 'absent' and not module.params['name']
device_name_missing(params) ==
    params.state # "absent" /\ params.name \in {None, ""}

\* want_pause = module.params['state'] == 'pause'
want_pause(params) == params.state = "pause"

\* device_update, also re-asserting the declared name on the found device.
device_update_renames(device, params) ==
    IF (want_pause(params) /\ ~device.paused) \/ (~want_pause(params) /\ device.paused)
       \/ device.name # params.name
    THEN [device EXCEPT !.paused = want_pause(params), !.name = params.name]
    ELSE device

\* The patch applied to a device found in the list: the pause flag only.
device_update(device, params) ==
    IF (want_pause(params) /\ ~device.paused) \/ (~want_pause(params) /\ device.paused)
    THEN [device EXCEPT !.paused = want_pause(params)]
    ELSE device

\* device_reconcile whose creation replaces the list instead of appending.
device_reconcile_replaces_list(params, devices) ==
    LET idx == device_index(devices, params.id) IN
    IF params.state = "absent"
    THEN IF idx # 0
         THEN [devices |-> PopAt(devices, idx), changed |-> TRUE]
         ELSE [devices |-> devices, changed |-> FALSE]
    ELSE IF idx # 0
         THEN [devices |-> [devices EXCEPT ![idx] = device_update(devices[idx], params)],
               changed |-> device_update(devices[idx], params) # devices[idx]]
         ELSE [devices |-> << create_device(params) >>,
               changed |-> TRUE]

\* The body of run_module between get_config and the "if result['changed']"
\* test: the devices list after the in-place modification, and changed.
device_reconcile(params, devices) ==
    LET idx == device_index(devices, params.id) IN
    IF params.state = "absent"
    THEN IF idx # 0
         THEN [devices |-> PopAt(devices, idx), changed |-> TRUE]
         ELSE [devices |-> devices, changed |-> FALSE]
    ELSE IF idx # 0
         THEN [devices |-> [devices EXCEPT ![idx] = device_update(devices[idx], params)],
               changed |-> device_update(devices[idx], params) # devices[idx]]
         ELSE [devices |-> Append(devices, create_device(params)),
               changed |-> TRUE]

----------------------------------------------------------------------------
(* syncthing_folder                                                        *)

\* devices=dict(type='list', required=False, default=False): when the
\* operator declares no devices, the default False goes through the list
\* coercion of the argument spec, which turns a bool into [str(value)].
devices_default == << "False" >>

\* get_status(module): only myID is consumed.
get_status == [myID |-> MyID]

\* The deviceID of the last device of the list whose name is n
\* (a later key of the dict comprehension overwrites an earlier one).
last_device_named(devices, n) ==
    LET i == CHOOSE i \in 1..Len(devices) :
                 /\ devices[i].name = n
                 /\ \A j \in (i + 1)..Len(devices) : devices[j].name # n
    IN devices[i].deviceID

\* get_devices_mapping(config): device name -> device ID.
get_devices_mapping(cfg) ==
    [n \in {cfg.devices[i].name : i \in 1..Len(cfg.devices)} |->
        last_device_named(cfg.devices, n)]

\* 1-based index of the first folder whose id is folder_id, 0 when none.
folder_index(folders, folder_id) ==
    IF \E i \in 1..Len(folders) : folders[i].id = folder_id
    THEN CHOOSE i \in 1..Len(folders) :
            /\ folders[i].id = folder_id
            /\ \A j \in 1..(i - 1) : folders[j].id # folder_id
    ELSE 0

\* get_folder_config(folder_id, config): <<folder>> when found, <<>> for None.
get_folder_config(folder_id, cfg) ==
    LET idx == folder_index(cfg.folders, folder_id) IN
    IF idx = 0 THEN <<>> ELSE <<cfg.folders[idx]>>

\* wanted_device_ids started from an empty set instead of {self_id}.
wanted_device_ids_without_self(params, self_id, devices_mapping) ==
    { IF params.devices[i] \in DOMAIN devices_mapping
      THEN devices_mapping[params.devices[i]]
      ELSE params.devices[i] : i \in 1..Len(params.devices) }

\* wanted_device_ids that never looks a reference up in the mapping.
wanted_device_ids_unresolved(params, self_id, devices_mapping) ==
    {self_id} \cup Range(params.devices)

\* The loop of create_folder that builds wanted_device_ids.
wanted_device_ids(params, self_id, devices_mapping) ==
    {self_id} \cup
    { IF params.devices[i] \in DOMAIN devices_mapping
      THEN devices_mapping[params.devices[i]]
      ELSE params.devices[i] : i \in 1..Len(params.devices) }

\* folder_device_ids without the test on the current list.
folder_device_ids_always_sorted(current_device_ids, wanted) == sorted(wanted)

\* folder_device_ids keeping the current devices in place and appending the
\* new ones, instead of sorting the whole list.
folder_device_ids_appended(current_device_ids, wanted) ==
    IF Range(current_device_ids) = wanted
    THEN current_device_ids
    ELSE SelectSeq(current_device_ids, LAMBDA d : d \in wanted)
         \o sorted(wanted \ Range(current_device_ids))

\* Keep the original ordering if collections are equivalent, else sort.
folder_device_ids(current_device_ids, wanted) ==
    IF Range(current_device_ids) = wanted
    THEN current_device_ids
    ELSE sorted(wanted)

\* 'paused': True if params['state'] == 'paused' else False
folder_paused(params) == IF params.state = "paused" THEN TRUE ELSE FALSE

\* folder_label that leaves the label empty when none is declared.
folder_label_blank(params) ==
    IF params.label \notin {None, ""} THEN params.label ELSE ""

\* 'label': params['label'] if params['label'] else params['id']
folder_label(params) ==
    IF params.label \notin {None, ""} THEN params.label ELSE params.id

\* create_folder(params, self_id, current_device_ids, devices_mapping)
create_folder(params, self_id, current_device_ids, devices_mapping) ==
    LET device_ids == folder_device_ids(current_device_ids,
                          wanted_device_ids(params, self_id, devices_mapping))
        devices == [i \in 1..Len(device_ids) |->
                       [deviceID |-> device_ids[i], introducedBy |-> ""]]
    IN
    [ autoNormalize         |-> TRUE,
      copiers               |-> 0,
      devices               |-> devices,
      disableSparseFiles    |-> FALSE,
      disableTempIndexes    |-> FALSE,
      filesystemType        |-> "basic",
      fsWatcherDelayS       |-> 10,
      fsWatcherEnabled      |-> params.fs_watcher,
      hashers               |-> 0,
      id                    |-> params.id,
      ignoreDelete          |-> FALSE,
      ignorePerms           |-> params.ignore_perms,
      label                 |-> folder_label(params),
      markerName            |-> ".stfolder",
      maxConflicts          |-> -1,
      minDiskFree           |-> [unit |-> "%", value |-> 1],
      order                 |-> params.order,
      path                  |-> params.path,
      paused                |-> folder_paused(params),
      pullerMaxPendingKiB   |-> 0,
      pullerPauseS          |-> 0,
      rescanIntervalS       |-> 3600,
      scanProgressIntervalS |-> 0,
      type                  |-> params.type,
      useLargeBlocks        |-> FALSE,
      versioning            |-> [params |-> <<>>, type |-> ""],
      weakHashThresholdPct  |-> 25 ]

\* run_module of syncthing_folder without its test on the path.
folder_path_not_checked(params) == FALSE

\* if module.params['state'] != 'absent' and not module.params['path']
folder_path_missing(params) ==
    params.state # "absent" /\ params.path \in {None, ""}

\* folder_config.clear(); folder_config.update(folder_config_wanted)
folder_update(folder_config, folder_config_wanted) == folder_config_wanted

\* The body of run_module between get_status and the "if result['changed']"
\* test: the folders list after the in-place modification, and changed.
folder_reconcile(params, self_id, cfg) ==
    LET idx == folder_index(cfg.folders, params.id) IN
    IF params.state = "absent"
    THEN IF idx # 0
         THEN [folders |-> PopAt(cfg.folders, idx), changed |-> TRUE]
         ELSE [folders |-> cfg.folders, changed |-> FALSE]
    ELSE LET folder_config == get_folder_config(params.id, cfg)
             folder_config_devices ==
                 IF folder_config # <<>>
                 THEN [i \in 1..Len(folder_config[1].devices) |->
                          folder_config[1].devices[i].deviceID]
                 ELSE <<>>
             folder_config_wanted ==
                 create_folder(params, self_id, folder_config_devices,
                               get_devices_mapping(cfg))
         IN IF folder_config = <<>>
            THEN [folders |-> Append(cfg.folders, folder_config_wanted),
                  changed |-> TRUE]
            ELSE IF folder_config[1] # folder_config_wanted
            THEN [folders |-> [cfg.folders EXCEPT ![idx] =
                                  folder_update(folder_config[1], folder_config_wanted)],
                  changed |-> TRUE]
            ELSE [folders |-> cfg.folders, changed |-> FALSE]

----------------------------------------------------------------------------
(* syncthing_gui                                                           *)

\* The three comparisons of run_module on config['gui'], in order.
gui_set_useTLS(gui_config, params) ==
    IF gui_config.useTLS # params.useTLS
    THEN [gui_config EXCEPT !.useTLS = params.useTLS] ELSE gui_config

gui_set_address(gui_config, params) ==
    IF gui_config.address # params.address
    THEN [gui_config EXCEPT !.address = params.address] ELSE gui_config

\* gui_set_user comparing the password as well as the user.
gui_set_user_compares_password(gui_config, params) ==
    IF gui_config.user # params.user \/ gui_config.password # params.password
    THEN [gui_config EXCEPT !.user = params.user, !.password = params.password]
    ELSE gui_config

gui_set_user(gui_config, params) ==
    IF gui_config.user # params.user
    THEN [gui_config EXCEPT !.user = params.user, !.password = params.password]
    ELSE gui_config

\* The gui record after the in-place modification, and changed.
gui_reconcile(params, gui_config) ==
    LET g == gui_set_user(gui_set_address(gui_set_useTLS(gui_config, params),
                                          params), params)
    IN [gui |-> g,
        changed |-> \/ gui_config.useTLS # params.useTLS
                    \/ gui_config.address # params.address
                    \/ gui_config.user # params.user]

----------------------------------------------------------------------------
(* One invocation of a module: requests, result and effect on the daemon   *)

\* fetch_url(module, url, method=...): the status of the answer, 200 or not
\* (a non-200 answer and a network-level failure take the same branch of the
\* callers, so one failing status stands for both).
fetch_url(net, method, resource) ==
    IF \/ method = "GET"  /\ resource = "system/config" /\ net = "get_config_fails"
       \/ method = "GET"  /\ resource = "system/status" /\ net = "get_status_fails"
       \/ method = "POST" /\ resource = "system/config" /\ net = "post_fails"
    THEN 500 ELSE 200

\* One entry of the log of the requests an invocation issued.
Request(method, resource, status) ==
    [method |-> method, resource |-> resource, status |-> status]

CountOf(requests, method) ==
    Cardinality({i \in 1..Len(requests) : requests[i].method = method})

\* What one invocation leaves behind.  exit is how run_module ended
\* (exit_json, fail_json, a plain return, or an uncaught exception), msg the
\* message it failed with, changed and diff are result['changed'] and
\* result['diff'] (<<>> when the key is not set), requests is the log of the
\* requests issued, in order, nGet and nPost count them, posted is the body
\* of the POST (<<>> when none was issued) and document is the daemon's
\* configuration after the invocation.
Outcome(exit, msg, changed, diff, requests, posted, document) ==
    [exit |-> exit, msg |-> msg, changed |-> changed, diff |-> diff,
     requests |-> requests,
     nGet |-> CountOf(requests, "GET"), nPost |-> CountOf(requests, "POST"),
     posted |-> posted, document |-> document]

\* The daemon stores the posted document as sent.
daemon_store(body) == body

\* get_data_from_rest_api of module_utils that goes on after any answer.
utils_get_failed_never(status) == FALSE

\* "if not info or info['status'] != 200:" of get_data_from_rest_api,
\* module_utils/syncthing.py.
utils_get_failed(status) == status # 200

\* post_config of module_utils that does not look at the answer.
post_config_ignores_failure(body, net, cfg) ==
    LET status == fetch_url(net, "POST", "system/config") IN
    [ requests |-> << Request("POST", "system/config", status) >>,
      failed   |-> FALSE,
      document |-> IF status = 200 THEN daemon_store(body) ELSE cfg ]

\* post_config of module_utils that sends the document again after a failure.
post_config_retries(body, net, cfg) ==
    LET status == fetch_url(net, "POST", "system/config") IN
    [ requests |-> IF status = 200
                   THEN << Request("POST", "system/config", status) >>
                   ELSE << Request("POST", "system/config", status),
                           Request("POST", "system/config", status) >>,
      failed   |-> status # 200,
      document |-> IF status = 200 THEN daemon_store(body) ELSE cfg ]

\* post_config(module, config, result) of module_utils/syncthing.py: one
\* POST of the document; failed when the answer is not 200.  A daemon that
\* does not answer 200 keeps the configuration it had.
post_config(body, net, cfg) ==
    LET status == fetch_url(net, "POST", "system/config") IN
    [ requests |-> << Request("POST", "system/config", status) >>,
      failed   |-> status # 200,
      document |-> IF status = 200 THEN daemon_store(body) ELSE cfg ]

\* The POST of syncthing_device without its check-mode test.
device_post_ignores_check_mode(check_mode) == TRUE

\* The check-mode test of syncthing_device with its condition inverted.
device_post_only_in_check_mode(check_mode) == check_mode

\* "if not module.check_mode:" in front of post_config, syncthing_device.
device_post_allowed(check_mode) == ~check_mode

\* config after the in-place modification of config['devices'].
device_config_after(cfg, devices) == [cfg EXCEPT !.devices = devices]

\* The diff of syncthing_device with "before" read after the in-place
\* modification of the list.
device_diff_before_aliased(cfg, new) ==
    [ before |-> safe_dump(new.devices), after |-> safe_dump(new.devices) ]

\* result['diff']: before is dumped right after get_config, after is dumped
\* from config['devices'] once modified.
device_diff(cfg, new) ==
    [ before |-> safe_dump(cfg.devices), after |-> safe_dump(new.devices) ]

\* run_module of syncthing_device.
device_run_module(params, check_mode, net, cfg) ==
    IF device_name_missing(params)
    THEN Outcome("fail_json", "You must provide a name when creating",
                 FALSE, <<>>, <<>>, <<>>, cfg)
    ELSE
    LET status == fetch_url(net, "GET", "system/config")
        gets   == << Request("GET", "system/config", status) >>
    IN
    IF utils_get_failed(status)
    THEN Outcome("fail_json", "Error occured while calling host",
                 FALSE, <<>>, gets, <<>>, cfg)
    ELSE
    LET r      == device_reconcile(params, cfg.devices)
        new    == device_config_after(cfg, r.devices)
        diff   == << device_diff(cfg, new) >>
    IN  IF ~r.changed
        THEN Outcome("exit_json", "", FALSE, <<>>, gets, <<>>, cfg)
        ELSE IF ~device_post_allowed(check_mode)
        THEN Outcome("exit_json", "", TRUE, diff, gets, <<>>, cfg)
        ELSE LET p == post_config(new, net, cfg) IN
             IF p.failed
             THEN Outcome("fail_json", "post_config", TRUE, <<>>,
                          gets \o p.requests, <<new>>, p.document)
             ELSE Outcome("exit_json", "", TRUE, diff,
                          gets \o p.requests, <<new>>, p.document)

\* "if module.check_mode: return result" of syncthing_folder.
folder_check_mode_returns(check_mode) == check_mode

\* "if not info or info['status'] != 200:" of the get_data_from_rest_api
\* that syncthing_folder defines for itself.
folder_get_failed(status) == status # 200

\* post_config(module, config, result) of syncthing_folder.
folder_post_config(body, net, cfg) ==
    LET status == fetch_url(net, "POST", "system/config") IN
    [ requests |-> << Request("POST", "system/config", status) >>,
      failed   |-> status # 200,
      document |-> IF status = 200 THEN daemon_store(body) ELSE cfg ]

\* config after the in-place modification of config['folders'].
folder_config_after(cfg, folders) == [cfg EXCEPT !.folders = folders]

\* run_module of syncthing_folder.  A failed GET makes its
\* get_data_from_rest_api assign to result, a name that only run_module
\* has: the invocation ends there with an uncaught NameError.
folder_run_module(params, check_mode, net, cfg) ==
    IF folder_path_missing(params)
    THEN Outcome("fail_json", "You must provide a path when creating",
                 FALSE, <<>>, <<>>, <<>>, cfg)
    ELSE IF folder_check_mode_returns(check_mode)
    THEN Outcome("return", "", FALSE, <<>>, <<>>, <<>>, cfg)
    ELSE
    LET config_status == fetch_url(net, "GET", "system/config")
        get_1 == << Request("GET", "system/config", config_status) >>
    IN
    IF folder_get_failed(config_status)
    THEN Outcome("exception", "NameError", FALSE, <<>>, get_1, <<>>, cfg)
    ELSE
    LET status_status == fetch_url(net, "GET", "system/status")
        gets == Append(get_1, Request("GET", "system/status", status_status))
    IN
    IF folder_get_failed(status_status)
    THEN Outcome("exception", "NameError", FALSE, <<>>, gets, <<>>, cfg)
    ELSE
    LET self_id == get_status.myID
        r       == folder_reconcile(params, self_id, cfg)
        new     == folder_config_after(cfg, r.folders)
    IN  IF ~r.changed
        THEN Outcome("exit_json", "", FALSE, <<>>, gets, <<>>, cfg)
        ELSE LET p == folder_post_config(new, net, cfg) IN
             IF p.failed
             THEN Outcome("fail_json", "post_config", TRUE, <<>>,
                          gets \o p.requests, <<new>>, p.document)
             ELSE Outcome("exit_json", "", TRUE, <<>>,
                          gets \o p.requests, <<new>>, p.document)

\* "if not module.check_mode:" in front of post_config, syncthing_gui.
gui_post_allowed(check_mode) == ~check_mode

\* config after the in-place modification of config['gui'].
gui_config_after(cfg, gui_config) == [cfg EXCEPT !.gui = gui_config]

\* result['diff'] of syncthing_gui: before is dumped right after get_config,
\* after is dumped from gui_config once modified.
gui_diff(cfg, new) ==
    [ before |-> safe_dump(cfg.gui), after |-> safe_dump(new.gui) ]

\* run_module of syncthing_gui.
gui_run_module(params, check_mode, net, cfg) ==
    LET status == fetch_url(net, "GET", "system/config")
        gets   == << Request("GET", "system/config", status) >>
    IN
    IF utils_get_failed(status)
    THEN Outcome("fail_json", "Error occured while calling host",
                 FALSE, <<>>, gets, <<>>, cfg)
    ELSE
    LET r      == gui_reconcile(params, cfg.gui)
        new    == gui_config_after(cfg, r.gui)
        diff   == << gui_diff(cfg, new) >>
    IN  IF ~r.changed
        THEN Outcome("exit_json", "", FALSE, <<>>, gets, <<>>, cfg)
        ELSE IF ~gui_post_allowed(check_mode)
        THEN Outcome("exit_json", "", TRUE, diff, gets, <<>>, cfg)
        ELSE LET p == post_config(new, net, cfg) IN
             IF p.failed
             THEN Outcome("fail_json", "post_config", TRUE, <<>>,
                          gets \o p.requests, <<new>>, p.document)
             ELSE Outcome("exit_json", "", TRUE, diff,
                          gets \o p.requests, <<new>>, p.document)

\* The module named op, run on the daemon document cfg.
run_module(op, params, check_mode, net, cfg) ==
    CASE op = "device" -> device_run_module(params, check_mode, net, cfg)
      [] op = "folder" -> folder_run_module(params, check_mode, net, cfg)
      [] op = "gui"    -> gui_run_module(params, check_mode, net, cfg)

----------------------------------------------------------------------------
(* Declared parameters                                                     *)

DeviceParams == [id : DeviceIdInputs, name : DeviceNameInputs, state : StateChoices]

\* The folder of the module's own example, with every default of the
\* argument spec.
FolderBase ==
    [ id |-> "box", label |-> None, path |-> "/data/box",
      devices |-> devices_default, fs_watcher |-> TRUE, ignore_perms |-> FALSE,
      type |-> "sendreceive", order |-> "random", state |-> "present" ]

FolderDeviceInputs ==
    { devices_default,
      << "BBBB-2222", "AAAA-1111" >>,
      << "AAAA-1111", "BBBB-2222", "CCCC-3333" >>,
      << "CCCC-3333", "BBBB-2222", "AAAA-1111" >>,
      << "laptop", "ZZZZ-9999" >> }

FolderParams ==
    { [FolderBase EXCEPT !.devices = d, !.state = s] :
          d \in FolderDeviceInputs, s \in {"present", "pause"} }
    \cup { [FolderBase EXCEPT !.path = None, !.state = s] : s \in StateChoices }
    \cup { [FolderBase EXCEPT !.label = "Docs",
                              !.devices = << "BBBB-2222", "AAAA-1111" >>],
           [FolderBase EXCEPT !.type = "sendonly", !.order = "alphabetic",
                              !.fs_watcher = FALSE, !.ignore_perms = TRUE] }

GuiParams ==
    [ useTLS : BOOLEAN, address : {"127.0.0.1:8384", "0.0.0.0:8384"},
      user : {"admin", "bob"}, password : {"$2a$h1", "$2a$h2"} ]

----------------------------------------------------------------------------
(* Daemon documents the modules can meet                                   *)

\* A record with one more key.
WithKey(r, k, v) == [x \in DOMAIN r \cup {k} |-> IF x = k THEN v ELSE r[x]]

GuiAsInstalled ==
    [ useTLS |-> FALSE, address |-> "127.0.0.1:8384", user |-> "admin",
      password |-> "$2a$h0", apiKey |-> "k3y", theme |-> "default" ]

\* A device added by hand in the web interface, with its own settings.
DeviceNas ==
    [ create_device([id |-> "BBBB-2222", name |-> "nas", state |-> "present"])
        EXCEPT !.compression = "always", !.introducer = TRUE ]

DeviceLaptopPaused ==
    [ create_device([id |-> "AAAA-1111", name |-> "laptop", state |-> "present"])
        EXCEPT !.paused = TRUE ]

\* A folder added by hand: its own path, label and rescan interval, a key the
\* folder builder does not know, and a device list without the local id.
FolderBoxByHand ==
    WithKey([ create_folder([FolderBase EXCEPT !.path = "/srv/box", !.label = "Box"],
                            MyID, <<>>, <<>>)
                EXCEPT !.rescanIntervalS = 60,
                       !.devices = << [deviceID |-> "BBBB-2222", introducedBy |-> ""],
                                      [deviceID |-> "AAAA-1111", introducedBy |-> ""] >> ],
            "caseSensitiveFS", TRUE)

\* The folder the builder makes for FolderBase and devices B, A, with its
\* device list in an order that is not the sorted one.
FolderBoxUnsorted ==
    [ create_folder(FolderBase, MyID, <<>>, <<>>)
        EXCEPT !.devices = << [deviceID |-> "BBBB-2222", introducedBy |-> ""],
                              [deviceID |-> "LLLL-0000", introducedBy |-> ""],
                              [deviceID |-> "AAAA-1111", introducedBy |-> ""] >> ]

FolderMusic ==
    WithKey([ create_folder([FolderBase EXCEPT !.id = "music", !.path = "/srv/music"],
                            MyID, <<>>, <<>>)
                EXCEPT !.devices = << [deviceID |-> "LLLL-0000", introducedBy |-> ""] >> ],
            "caseSensitiveFS", TRUE)

OptionsAsInstalled == [ listenAddresses |-> <<"default">>, urAccepted |-> -1 ]

InitialConfigs ==
    { [ version |-> 29, devices |-> <<>>, folders |-> <<>>,
        gui |-> GuiAsInstalled, options |-> OptionsAsInstalled ],
      [ version |-> 29, devices |-> << DeviceNas >>,
        folders |-> << FolderMusic, FolderBoxByHand >>,
        gui |-> GuiAsInstalled, options |-> OptionsAsInstalled ],
      [ version |-> 29, devices |-> << DeviceLaptopPaused, DeviceNas >>,
        folders |-> << FolderBoxUnsorted >>,
        gui |-> GuiAsInstalled, options |-> OptionsAsInstalled ] }

----------------------------------------------------------------------------
(* The state machine: sequential invocations against one daemon            *)

NoRun == [ op |-> "none" ]

\* The record kept of an invocation: what was asked, the daemon document it
\* met, and what it left behind.
Invocation(op, params, check_mode, cfg, r) ==
    [ op |-> op, params |-> params, check_mode |-> check_mode, before |-> cfg,
      exit |-> r.exit, msg |-> r.msg, changed |-> r.changed, diff |-> r.diff,
      requests |-> r.requests,
      nGet |-> r.nGet, nPost |-> r.nPost, posted |-> r.posted ]

\* The names of the two invocations that run at the same time.
Procs == {"run_a", "run_b"}

NoRunners == [ proc |-> [p \in Procs |-> [pc |-> "idle"]], log |-> <<>> ]

NoEndpoint == [ pc |-> "unused" ]

Init ==
    /\ config \in InitialConfigs
    /\ last = NoRun
    /\ runs = 0
    /\ runners = NoRunners
    /\ endpoint = NoEndpoint

ManageDevice ==
    \E params \in DeviceParams, check_mode \in BOOLEAN, net \in ConfigOnlyNetOutcomes :
        LET r == device_run_module(params, check_mode, net, config) IN
        /\ runs < MaxRuns
        /\ config' = r.document
        /\ last' = Invocation("device", params, check_mode, config, r)
        /\ runs' = runs + 1
        /\ UNCHANGED <<runners, endpoint>>

ManageFolder ==
    \E params \in FolderParams, check_mode \in BOOLEAN, net \in NetOutcomes :
        LET r == folder_run_module(params, check_mode, net, config) IN
        /\ runs < MaxRuns
        /\ config' = r.document
        /\ last' = Invocation("folder", params, check_mode, config, r)
        /\ runs' = runs + 1
        /\ UNCHANGED <<runners, endpoint>>

ManageGUI ==
    \E params \in GuiParams, check_mode \in BOOLEAN, net \in ConfigOnlyNetOutcomes :
        LET r == gui_run_module(params, check_mode, net, config) IN
        /\ runs < MaxRuns
        /\ config' = r.document
        /\ last' = Invocation("gui", params, check_mode, config, r)
        /\ runs' = runs + 1
        /\ UNCHANGED <<runners, endpoint>>

Next == ManageDevice \/ ManageFolder \/ ManageGUI

Spec == Init /\ [][Next]_vars

----------------------------------------------------------------------------
(* Two invocations against one daemon at the same time                     *)

\* The parameters a concurrent invocation can be started with; the two
\* modules that go through module_utils' get_config and post_config.
RunnerInputs ==
    { [op |-> "device", params |-> q] : q \in DeviceParams } \cup
    { [op |-> "gui", params |-> q] : q \in GuiParams }

\* The two invocations do not manage the same device or both the GUI.
DifferentEntities(a, b) ==
    IF a.op = "device" /\ b.op = "device"
    THEN a.params.id # b.params.id
    ELSE a.op # b.op

\* run_module up to the return of get_config: the process holds its own
\* copy of the document the daemon had at that time.
RunnerGetConfig(p) ==
    \E in \in RunnerInputs, check_mode \in BOOLEAN :
        /\ runners.proc[p].pc = "idle"
        /\ \A q \in Procs \ {p} :
               runners.proc[q].pc # "idle" => DifferentEntities(in, runners.proc[q])
        /\ runners' =
              [ proc |-> [runners.proc EXCEPT ![p] =
                            [ pc |-> "fetched", op |-> in.op, params |-> in.params,
                              check_mode |-> check_mode, fetched |-> config ]],
                log |-> Append(runners.log, [proc |-> p, method |-> "GET"]) ]
        /\ UNCHANGED <<config, last, runs, endpoint>>

\* run_module from the return of get_config to its exit: the modification
\* of the fetched copy, and the POST of that copy when it changed.
RunnerFinish(p) ==
    \E net \in {"ok", "post_fails"} :
        LET me == runners.proc[p]
            r  == run_module(me.op, me.params, me.check_mode, net, me.fetched)
        IN
        /\ me.pc = "fetched"
        /\ config' = IF r.nPost = 1 /\ r.exit = "exit_json"
                      THEN daemon_store(r.posted[1]) ELSE config
        /\ runners' =
              [ proc |-> [runners.proc EXCEPT ![p] =
                            [ pc |-> "done", op |-> me.op, params |-> me.params,
                              check_mode |-> me.check_mode, fetched |-> me.fetched,
                              exit |-> r.exit, changed |-> r.changed,
                              nPost |-> r.nPost, posted |-> r.posted ]],
                log |-> IF r.nPost = 1
                        THEN Append(runners.log, [proc |-> p, method |-> "POST"])
                        ELSE runners.log ]
        /\ UNCHANGED <<last, runs, endpoint>>

InitConcurrent ==
    /\ config \in InitialConfigs
    /\ last = NoRun
    /\ runs = 0
    /\ runners = NoRunners
    /\ endpoint = NoEndpoint

NextConcurrent == \E p \in Procs : RunnerGetConfig(p) \/ RunnerFinish(p)

SpecConcurrent == InitConcurrent /\ [][NextConcurrent]_vars

----------------------------------------------------------------------------
(* module_utils: where the requests go and with which key                  *)

SYNCTHING_API_BASE_URI == "/rest"

\* The locations probed on a platform that is neither Windows nor Darwin.
DEFAULT_ST_CONFIG_LOCATIONS ==
    << "$HOME/.local/state/syncthing/config.xml",
       "$HOME/.config/syncthing/config.xml" >>

HostInputs == {None, "", "http://10.0.0.5:8384"}
ApiKeyInputs == {None, "", "s3cr3t"}
ConfigFileInputs == {None, "/etc/syncthing/config.xml"}

ConfigFilePaths ==
    Range(DEFAULT_ST_CONFIG_LOCATIONS) \cup (ConfigFileInputs \ {None})

\* An attribute or element the gui element does not have.
Absent == "<absent>"

\* What is on the disk of the managed host: which of the paths are files,
\* whether the file parses as XML with a gui element, and in that element
\* the tls attribute, the text of address and the text of apikey (None is
\* the text of an empty element).
FileSystems ==
    [ exists   : SUBSET ConfigFilePaths,
      readable : BOOLEAN,
      tls      : {Absent, "true", "false", "TRUE"},
      address  : {Absent, None, "127.0.0.1:8384"},
      apikey   : {Absent, None, "k3y"} ]

\* Python's "not value" on an optional str with every value taken as empty.
falsy_always(value) == TRUE

\* Python's "not value" on an optional str: None and '' are false.
falsy(value) == value \in {None, ""}

\* scheme + address on the strings above.
concat(scheme, address) ==
    CASE scheme = "http://"  /\ address = "127.0.0.1:8384" -> "http://127.0.0.1:8384"
      [] scheme = "https://" /\ address = "127.0.0.1:8384" -> "https://127.0.0.1:8384"

\* gui.attrib.get('tls', 'false') == 'true'
gui_tls(fs) == (IF fs.tls = Absent THEN "false" ELSE fs.tls) = "true"

FsCall(call, path) == [call |-> call, path |-> path]

\* The first part of auto_configuration: the explicit config_file, or the
\* first default location that is a file; the isfile calls it took.
locate_config_file(params, fs) ==
    LET n     == Len(DEFAULT_ST_CONFIG_LOCATIONS)
        found == {i \in 1..n : DEFAULT_ST_CONFIG_LOCATIONS[i] \in fs.exists}
        first == CHOOSE i \in found : \A j \in found : i <= j
    IN  IF ~falsy(params.config_file)
        THEN [ failed |-> FALSE, path |-> params.config_file, calls |-> <<>> ]
        ELSE IF found = {}
        THEN [ failed |-> TRUE, path |-> params.config_file,
               calls |-> [i \in 1..n |-> FsCall("isfile", DEFAULT_ST_CONFIG_LOCATIONS[i])] ]
        ELSE [ failed |-> FALSE, path |-> DEFAULT_ST_CONFIG_LOCATIONS[first],
               calls |-> [i \in 1..first |-> FsCall("isfile", DEFAULT_ST_CONFIG_LOCATIONS[i])] ]

\* auto_configuration(module): module.params after the call, the file
\* system calls made, and whether fail_json was called.
auto_configuration(params, fs) ==
    LET loc        == locate_config_file(params, fs)
        parsed     == loc.path \in fs.exists /\ fs.readable
        need_host  == falsy(params.host)
        need_key   == falsy(params.api_key)
        \* 'http://' + None and None.text both raise
        host_found == parsed /\ need_host /\ fs.address \notin {Absent, None}
        host_done  == parsed /\ (need_host => fs.address \notin {Absent, None})
        key_found  == host_done /\ need_key /\ fs.apikey # Absent
        key_done   == host_done /\ (need_key => fs.apikey # Absent)
    IN  IF loc.failed
        THEN [ failed |-> TRUE,
               msg |-> "Auto-configuration failed: unable to locate the config file.",
               params |-> params, calls |-> loc.calls ]
        ELSE [ failed |-> ~key_done,
               msg |-> IF key_done THEN "" ELSE "Auto-configuration failed: unable to read",
               params |->
                 [ config_file |-> loc.path,
                   host |-> IF host_found
                            THEN concat(IF gui_tls(fs) THEN "https://" ELSE "http://",
                                        fs.address)
                            ELSE params.host,
                   api_key |-> IF key_found THEN fs.apikey ELSE params.api_key ],
               calls |-> Append(loc.calls, FsCall("parse", loc.path)) ]

\* make_headers(module, resource): the url and headers of the request, with
\* module.params as the call leaves them.
make_headers(params, resource, fs) ==
    LET auto == IF falsy(params.api_key) \/ falsy(params.host)
                THEN auto_configuration(params, fs)
                ELSE [ failed |-> FALSE, msg |-> "", params |-> params, calls |-> <<>> ]
    IN  [ failed  |-> auto.failed,
          msg     |-> auto.msg,
          params  |-> auto.params,
          calls   |-> auto.calls,
          url     |-> [ host |-> auto.params.host, base |-> SYNCTHING_API_BASE_URI,
                        resource |-> resource ],
          headers |-> [ X_Api_Key |-> auto.params.api_key ] ]

\* A request goes out with what make_headers returned, or the module has
\* failed before sending it.
EndpointAfter(method, h, next_pc) ==
    [ endpoint EXCEPT
        !.pc     = IF h.failed THEN "failed" ELSE next_pc,
        !.msg    = h.msg,
        !.params = h.params,
        !.calls  = endpoint.calls \o h.calls,
        !.sent   = IF h.failed THEN endpoint.sent
                   ELSE Append(endpoint.sent,
                               [method |-> method, url |-> h.url, headers |-> h.headers]) ]

\* get_config(module): the first request of an invocation.
GetConfigRequest ==
    /\ endpoint.pc = "start"
    /\ endpoint' = EndpointAfter("GET",
                       make_headers(endpoint.params, "system/config", endpoint.fs),
                       "config_fetched")
    /\ UNCHANGED <<config, last, runs, runners>>

\* post_config(module, config, result): the second request, with the
\* parameters the first one left in module.params.
PostConfigRequest ==
    /\ endpoint.pc = "config_fetched"
    /\ endpoint' = EndpointAfter("POST",
                       make_headers(endpoint.params, "system/config", endpoint.fs),
                       "posted")
    /\ UNCHANGED <<config, last, runs, runners>>

InitEndpoint ==
    /\ config \in InitialConfigs
    /\ last = NoRun
    /\ runs = 0
    /\ runners = NoRunners
    /\ \E host \in HostInputs, api_key \in ApiKeyInputs,
          config_file \in ConfigFileInputs, fs \in FileSystems :
          LET params == [host |-> host, api_key |-> api_key, config_file |-> config_file]
          IN endpoint = [ pc |-> "start", given |-> params, params |-> params,
                          fs |-> fs, calls |-> <<>>, sent |-> <<>>, msg |-> "" ]

NextEndpoint == GetConfigRequest \/ PostConfigRequest

SpecEndpoint == InitEndpoint /\ [][NextEndpoint]_vars

----------------------------------------------------------------------------
(* Vocabulary of the properties                                            *)

Ran == last.op # "none"

\* The invocation got its configuration (and, for a folder, the status) and
\* went through the modification step: every GET was issued and answered
\* 200.
Reconciled ==
    /\ Ran
    /\ \/ last.op \in {"device", "gui"} /\ last.nGet = 1
       \/ last.op = "folder" /\ last.nGet = 2
    /\ \A i \in 1..Len(last.requests) :
           last.requests[i].method = "GET" => last.requests[i].status = 200

\* The invocation ended as a failure.
Failed == Ran /\ last.exit \in {"fail_json", "exception"}

\* The invocation issued its POST and the daemon answered 200.
Applied == Ran /\ last.nPost = 1 /\ last.exit = "exit_json"

Ids(devices) == [i \in 1..Len(devices) |-> devices[i].deviceID]

\* The keys of a folder record that the operator declares.
FolderDeclaredKeys ==
    {"id", "label", "path", "devices", "fsWatcherEnabled", "ignorePerms",
     "type", "order", "paused"}

----------------------------------------------------------------------------
(* C1  Idempotency                                                         *)

\* C1: when a module is run twice in sequence with the same declared
\* parameters, no dry-run, no other writer and every request answered 200,
\* the second run reports changed = false and leaves the daemon document
\* exactly as the first run left it.
C1_Idempotency ==
    [][ ( /\ Ran /\ ~last.check_mode /\ last.exit = "exit_json"
          /\ last'.op = last.op /\ last'.params = last.params
          /\ ~last'.check_mode /\ last'.exit = "exit_json" )
        => ( last'.changed = FALSE /\ config' = config ) ]_vars

----------------------------------------------------------------------------
(* C2  Dry-run non-mutation                                                *)

\* C2: an invocation in check mode issues no POST and leaves the daemon's
\* configuration document as it was before the invocation.
C2_DryRunNonMutation ==
    (Ran /\ last.check_mode) => (last.nPost = 0 /\ last.posted = <<>> /\ config = last.before)

\* A dry run of the device module on parameters for which the real run
\* posts a new document.
C2_Witness ==
    /\ Ran /\ last.check_mode /\ last.op = "device" /\ last.changed
    /\ last.nPost = 0 /\ config = last.before
    /\ run_module("device", last.params, FALSE, "ok", last.before).nPost = 1

----------------------------------------------------------------------------
(* C3  Dry-run reports what a real run would do                            *)

\* C3: a dry-run invocation that did not fail reports the same changed flag
\* and the same diff as the real invocation on the same parameters and the
\* same daemon document.
C3_DryRunReportsRealRun ==
    (Ran /\ last.check_mode /\ last.exit # "fail_json") =>
        LET real == run_module(last.op, last.params, FALSE, "ok", last.before)
        IN  /\ last.changed = real.changed
            /\ last.diff = real.diff

----------------------------------------------------------------------------
(* C4  Unmanaged fields are preserved                                      *)

\* The keys of record old that are not in managed are keys of new with the
\* same value.
KeepsOtherKeys(old, new, managed) ==
    \A k \in DOMAIN old \ managed : k \in DOMAIN new /\ new[k] = old[k]

\* C4: in every posted document each key the operation does not manage has
\* its fetched value: the other top-level keys, and for an entity that is
\* updated in place, the keys of its record that the operator did not
\* declare.
C4_UnmanagedPreserved ==
    (Ran /\ last.posted # <<>>) =>
        LET old == last.before
            new == last.posted[1]
        IN
        /\ last.op = "device" =>
              /\ KeepsOtherKeys(old, new, {"devices"})
              /\ LET idx == device_index(old.devices, last.params.id) IN
                 (idx # 0 /\ last.params.state # "absent") =>
                     /\ Len(new.devices) = Len(old.devices)
                     /\ KeepsOtherKeys(old.devices[idx], new.devices[idx], {"paused"})
        /\ last.op = "gui" =>
              /\ KeepsOtherKeys(old, new, {"gui"})
              /\ KeepsOtherKeys(old.gui, new.gui, {"useTLS", "address", "user", "password"})
        /\ last.op = "folder" =>
              /\ KeepsOtherKeys(old, new, {"folders"})
              /\ LET idx == folder_index(old.folders, last.params.id) IN
                 (idx # 0 /\ last.params.state # "absent") =>
                     /\ Len(new.folders) = Len(old.folders)
                     /\ KeepsOtherKeys(old.folders[idx], new.folders[idx], FolderDeclaredKeys)

----------------------------------------------------------------------------
(* C5  Device creation                                                     *)

\* C5: the device module with a state other than absent and an id that is
\* not in the fetched list reports changed = true, and the devices list it
\* builds is the fetched one followed by one record with the declared id and
\* name, the fixed defaults, and paused = true exactly when the declared
\* state is the pause state.
C5_DeviceCreation ==
    ( /\ Reconciled /\ last.op = "device" /\ last.params.state # "absent"
      /\ device_index(last.before.devices, last.params.id) = 0 ) =>
        /\ last.changed
        /\ last.posted # <<>> =>
              LET old == last.before.devices
                  new == last.posted[1].devices
              IN  /\ Len(new) = Len(old) + 1
                  /\ \A i \in 1..Len(old) : new[i] = old[i]
                  /\ new[Len(new)].deviceID = last.params.id
                  /\ new[Len(new)].name = last.params.name
                  /\ new[Len(new)].compression = "metadata"
                  /\ new[Len(new)].introducer = FALSE
                  /\ new[Len(new)].paused = (last.params.state = "pause")

----------------------------------------------------------------------------
(* C6  Device update touches only the pause flag                           *)

\* C6: when the device module runs with a state other than absent on an id
\* found in the fetched list, changed is true exactly when the device's
\* paused flag differs from "the declared state is pause", the posted
\* document is the fetched one with that flag set and nothing else altered,
\* and without a change nothing is posted.
C6_DeviceUpdateOnlyPause ==
    ( /\ Reconciled /\ last.op = "device" /\ last.params.state # "absent"
      /\ device_index(last.before.devices, last.params.id) # 0 ) =>
        LET idx  == device_index(last.before.devices, last.params.id)
            old  == last.before.devices[idx]
            want == (last.params.state = "pause")
        IN  /\ last.changed = (old.paused # want)
            /\ last.posted # <<>> =>
                  last.posted[1] = [last.before EXCEPT !.devices[idx].paused = want]
            /\ last.diff # <<>> =>
                  last.diff[1].after =
                      safe_dump([last.before.devices EXCEPT ![idx].paused = want])
            /\ ~last.changed => (last.posted = <<>> /\ config = last.before)

\* The hand-made device "nas" is paused by a run that declares another name.
C6_Witness ==
    /\ Applied /\ last.op = "device" /\ last.params.state = "pause"
    /\ device_index(last.before.devices, last.params.id) # 0
    /\ LET idx == device_index(last.before.devices, last.params.id) IN
       /\ last.before.devices[idx].name # last.params.name
       /\ last.before.devices[idx].compression # "metadata"
       /\ ~last.before.devices[idx].paused
       /\ config.devices[idx].paused
       /\ Len(last.before.devices) > 1

----------------------------------------------------------------------------
(* C7 - C9  The device list of a folder                                    *)

FolderBuilt == Reconciled /\ last.op = "folder" /\ last.params.state # "absent"

\* The fetched folder with the declared id, as <<folder>> or <<>>.
FetchedFolder == get_folder_config(last.params.id, last.before)

FetchedFolderIds ==
    IF FetchedFolder = <<>> THEN <<>> ELSE Ids(FetchedFolder[1].devices)

\* The folder with the declared id in the posted document.
PostedFolder == get_folder_config(last.params.id, last.posted[1])[1]

\* The declared references, each replaced by the id of the device that has
\* it as name when there is one.
ResolvedDeclared ==
    { IF \E i \in 1..Len(last.before.devices) : last.before.devices[i].name = ref
      THEN last_device_named(last.before.devices, ref)
      ELSE ref : ref \in Range(last.params.devices) }

\* What the builder returns for this invocation.
BuiltFolder ==
    create_folder(last.params, MyID, FetchedFolderIds, get_devices_mapping(last.before))

PlainEntries(devices) ==
    \A i \in 1..Len(devices) :
        devices[i] = [deviceID |-> devices[i].deviceID, introducedBy |-> ""]

StrictlyAscending(ids) ==
    \A i, j \in 1..Len(ids) : i < j => Rank(ids[i]) < Rank(ids[j])

\* C7: when the resolved declared ids plus the local id are, as a set, the
\* ids of the folder's current device list, the builder returns the ids in
\* the current order, and a fetched folder that differs from the sorted
\* desired one only in the order of its devices is reported unchanged.
C7_OrderPreserved ==
    (FolderBuilt /\ FetchedFolder # <<>>
       /\ Range(FetchedFolderIds) = ResolvedDeclared \cup {MyID}) =>
        LET cur    == FetchedFolder[1]
            sorted_one == create_folder(last.params, MyID, <<>>,
                                        get_devices_mapping(last.before))
        IN  /\ Ids(BuiltFolder.devices) = FetchedFolderIds
            /\ last.posted # <<>> => Ids(PostedFolder.devices) = FetchedFolderIds
            /\ ( /\ [cur EXCEPT !.devices = sorted_one.devices] = sorted_one
                 /\ Range(cur.devices) = Range(sorted_one.devices)
                 /\ Len(cur.devices) = Len(sorted_one.devices) )
               => (~last.changed /\ last.nPost = 0 /\ config = last.before)

\* A folder whose device list is B, local, A is declared with devices B, A
\* and is otherwise as desired.
C7_Witness ==
    /\ FolderBuilt /\ FetchedFolder # <<>>
    /\ Range(FetchedFolderIds) = ResolvedDeclared \cup {MyID}
    /\ ~StrictlyAscending(FetchedFolderIds)
    /\ ~last.changed /\ last.exit = "exit_json"

\* C8: when the desired id set differs from the set of the current device
\* list, the run is a change and the device list of the posted folder is the
\* desired set in ascending order, whatever the order of the declaration and
\* of the current list; for current [B, A] and declared {A, B, C} it is
\* [A, B, C, local id].
C8_SortedOnChange ==
    (FolderBuilt /\ Range(FetchedFolderIds) # ResolvedDeclared \cup {MyID}) =>
        /\ last.changed
        /\ StrictlyAscending(Ids(BuiltFolder.devices))
        /\ last.posted # <<>> =>
              LET ids == Ids(PostedFolder.devices) IN
              /\ Range(ids) = ResolvedDeclared \cup {MyID}
              /\ StrictlyAscending(ids)
              /\ PlainEntries(PostedFolder.devices)
              /\ \A q \in FolderParams :
                    Range(q.devices) = Range(last.params.devices) =>
                        Ids(create_folder(q, MyID, FetchedFolderIds,
                                get_devices_mapping(last.before)).devices) = ids
              /\ ( /\ FetchedFolderIds = << "BBBB-2222", "AAAA-1111" >>
                   /\ ResolvedDeclared = {"AAAA-1111", "BBBB-2222", "CCCC-3333"} )
                 => ids = << "AAAA-1111", "BBBB-2222", "CCCC-3333", MyID >>

\* The folder with devices [B, A] is declared with C, B, A and posted.
C8_Witness ==
    /\ FolderBuilt /\ Applied
    /\ FetchedFolderIds = << "BBBB-2222", "AAAA-1111" >>
    /\ last.params.devices = << "CCCC-3333", "BBBB-2222", "AAAA-1111" >>
    /\ Ids(get_folder_config("box", config)[1].devices)
          = << "AAAA-1111", "BBBB-2222", "CCCC-3333", MyID >>

\* C9: whatever devices are declared, the folder the builder returns has the
\* local daemon's id in its device list, and so has the posted folder; a
\* current folder whose device set is the declared set plus the local id and
\* that agrees with the desired one on everything else is reported unchanged.
C9_LocalDeviceImplicit ==
    FolderBuilt =>
        /\ get_status.myID \in Range(Ids(BuiltFolder.devices))
        /\ last.posted # <<>> => get_status.myID \in Range(Ids(PostedFolder.devices))
        /\ ( /\ FetchedFolder # <<>>
             /\ Range(FetchedFolderIds) = ResolvedDeclared \cup {get_status.myID}
             /\ PlainEntries(FetchedFolder[1].devices)
             /\ \A k \in DOMAIN BuiltFolder \ {"devices"} :
                    k \in DOMAIN FetchedFolder[1] /\ FetchedFolder[1][k] = BuiltFolder[k]
             /\ DOMAIN FetchedFolder[1] = DOMAIN BuiltFolder )
           => (~last.changed /\ last.nPost = 0)

\* A folder is created by an operator who declared no local id, and the
\* daemon holds it with the local id in its device list.
C9_Witness ==
    /\ FolderBuilt /\ Applied /\ FetchedFolder = <<>>
    /\ get_status.myID \notin ResolvedDeclared
    /\ get_status.myID \in Range(Ids(get_folder_config(last.params.id, config)[1].devices))

----------------------------------------------------------------------------
(* C10  GUI password gating                                                *)

\* The gui record the invocation ends with: the posted one, the one shown as
\* "after" by a dry run, or the fetched one when nothing changed.
GuiAfter ==
    IF last.posted # <<>> THEN last.posted[1].gui
    ELSE IF last.diff # <<>> THEN last.diff[1].after.yaml
    ELSE last.before.gui

\* C10: in the GUI module the password changes only if the declared user
\* differs from the fetched one; when it differs both user and password take
\* the declared values; when it is equal both stay as fetched, and if address
\* and useTLS are equal too the run reports changed = false.
C10_PasswordGating ==
    (Reconciled /\ last.op = "gui") =>
        LET old == last.before.gui
            p   == last.params
        IN  /\ GuiAfter.password # old.password => p.user # old.user
            /\ p.user # old.user =>
                  (GuiAfter.user = p.user /\ GuiAfter.password = p.password /\ last.changed)
            /\ p.user = old.user =>
                  (GuiAfter.user = old.user /\ GuiAfter.password = old.password)
            /\ (p.user = old.user /\ p.address = old.address /\ p.useTLS = old.useTLS)
                  => (~last.changed /\ last.nPost = 0)
            /\ GuiAfter.address = p.address /\ GuiAfter.useTLS = p.useTLS

\* A run that changes the address, with the user as fetched and another
\* password declared, is applied and the stored password is the fetched one.
C10_Witness ==
    /\ Applied /\ last.op = "gui"
    /\ last.params.user = last.before.gui.user
    /\ last.params.password # last.before.gui.password
    /\ last.params.address # last.before.gui.address
    /\ config.gui.password = last.before.gui.password
    /\ config.gui.address = last.params.address

----------------------------------------------------------------------------
(* C11  Deletion is idempotent                                             *)

ValidationMessages ==
    {"You must provide a name when creating", "You must provide a path when creating"}

\* 1-based index of the declared id in the fetched collection of the module,
\* 0 when it is not there.
FetchedIndex ==
    IF last.op = "device"
    THEN device_index(last.before.devices, last.params.id)
    ELSE folder_index(last.before.folders, last.params.id)

AllAnswered200 ==
    \A i \in 1..Len(last.requests) : last.requests[i].status = 200

\* C11: the device or folder module with state absent is never refused for
\* a missing name or path, and when the id is not in the fetched collection
\* it ends successfully with changed = false, no POST, and the daemon
\* document as it was.
C11_DeletionIdempotent ==
    (Ran /\ last.op \in {"device", "folder"} /\ last.params.state = "absent") =>
        /\ last.msg \notin ValidationMessages
        /\ (Reconciled /\ FetchedIndex = 0) =>
              /\ last.exit = "exit_json"
              /\ ~last.changed /\ last.diff = <<>>
              /\ last.nPost = 0 /\ last.posted = <<>>
              /\ config = last.before

\* A device that is not in the list is declared absent, without a name.
C11_Witness ==
    /\ Reconciled /\ last.op = "device" /\ last.params.state = "absent"
    /\ last.params.name = None /\ FetchedIndex = 0
    /\ ~last.check_mode /\ last.exit = "exit_json" /\ ~last.changed

----------------------------------------------------------------------------
(* C12  Validation precedes the network                                    *)

CreationFieldMissing ==
    \/ last.op = "device" /\ last.params.state # "absent"
                          /\ last.params.name \in {None, ""}
    \/ last.op = "folder" /\ last.params.state # "absent"
                          /\ last.params.path \in {None, ""}

\* C12: a device declared with a state other than absent and no name, or a
\* folder with a state other than absent and no path, fails with the
\* validation message before any request, and the daemon document is as it
\* was.
C12_ValidationFirst ==
    (Ran /\ CreationFieldMissing) =>
        /\ last.exit = "fail_json" /\ last.msg \in ValidationMessages
        /\ last.requests = <<>> /\ last.nGet = 0 /\ last.nPost = 0
        /\ ~last.changed
        /\ config = last.before

\* A folder that does not exist is declared present without a path.
C12_Witness ==
    /\ Ran /\ last.op = "folder" /\ last.params.state = "present"
    /\ last.params.path = None /\ ~last.check_mode
    /\ folder_index(last.before.folders, last.params.id) = 0
    /\ last.exit = "fail_json" /\ last.requests = <<>>

----------------------------------------------------------------------------
(* C13 - C15  Requests of one invocation                                   *)

\* C13: when a GET of the invocation is not answered 200, the invocation
\* ends as a failure, that GET is the last request it issued, nothing is
\* posted and the daemon document is as it was.
C13_NoPartialApplication ==
    \A i \in 1..(IF Ran THEN Len(last.requests) ELSE 0) :
        (last.requests[i].method = "GET" /\ last.requests[i].status # 200) =>
            /\ Failed
            /\ Len(last.requests) = i
            /\ last.nPost = 0 /\ last.posted = <<>>
            /\ config = last.before

\* The status request of a folder run fails after its configuration request
\* succeeded, on parameters that would have changed the document.
C13_Witness ==
    /\ Failed /\ last.op = "folder" /\ Len(last.requests) = 2
    /\ last.requests[1].status = 200 /\ last.requests[2].status # 200
    /\ run_module("folder", last.params, FALSE, "ok", last.before).nPost = 1
    /\ config = last.before

\* C14: when the POST of the invocation is not answered 200, the invocation
\* ends as a failure, that POST is the only one and the last request it
\* issued, and the daemon document is the one it had before the invocation.
C14_FailedPost ==
    \A i \in 1..(IF Ran THEN Len(last.requests) ELSE 0) :
        (last.requests[i].method = "POST" /\ last.requests[i].status # 200) =>
            /\ Failed /\ last.exit = "fail_json"
            /\ Len(last.requests) = i
            /\ last.nPost = 1
            /\ config = last.before

\* The POST of a GUI run is refused.
C14_Witness ==
    /\ Failed /\ last.op = "gui" /\ last.nPost = 1
    /\ last.requests[Len(last.requests)].method = "POST"
    /\ last.requests[Len(last.requests)].status # 200
    /\ last.posted # <<>> /\ last.posted[1] # last.before
    /\ config = last.before

\* The GET requests an invocation of the module issues when none fails.
ExpectedGets ==
    IF last.op = "folder"
    THEN << "system/config", "system/status" >>
    ELSE << "system/config" >>

\* C15: an invocation issues at most two GETs, the configuration then the
\* status, and at most one POST; a POST comes after every GET of the
\* invocation, each answered 200, and nothing follows it.
C15_RequestBudget ==
    Ran =>
        /\ last.nGet <= 2 /\ last.nPost <= 1
        /\ last.nGet <= Len(ExpectedGets)
        /\ \A i \in 1..Len(last.requests) :
              IF last.requests[i].method = "GET"
              THEN /\ i <= Len(ExpectedGets)
                   /\ last.requests[i].resource = ExpectedGets[i]
              ELSE /\ last.requests[i].method = "POST"
                   /\ last.requests[i].resource = "system/config"
                   /\ i = Len(ExpectedGets) + 1
                   /\ i = Len(last.requests)
                   /\ \A j \in 1..(i - 1) :
                         /\ last.requests[j].method = "GET"
                         /\ last.requests[j].status = 200

\* A folder run that issues two GETs and then its POST, which is refused.
C15_Witness ==
    /\ Ran /\ last.op = "folder" /\ last.nGet = 2 /\ last.nPost = 1
    /\ Len(last.requests) = 3 /\ last.requests[3].method = "POST"
    /\ last.requests[3].status # 200

----------------------------------------------------------------------------
(* C16  Apply exactly when changed                                         *)

\* The key of the configuration document the module works on.
ManagedKey ==
    CASE last.op = "device" -> "devices"
      [] last.op = "folder" -> "folders"
      [] last.op = "gui"    -> "gui"

\* C16: an invocation that is not a dry run and got its documents issues a
\* POST exactly when changed is true; the body is the fetched document with
\* every key, in which the only value that differs is the one of the
\* collection the module works on.
C16_ApplyIffChanged ==
    (Reconciled /\ ~last.check_mode) =>
        /\ (last.nPost = 1) = last.changed
        /\ (last.posted # <<>>) = last.changed
        /\ last.posted # <<>> =>
              /\ DOMAIN last.posted[1] = DOMAIN last.before
              /\ KeepsOtherKeys(last.before, last.posted[1], {ManagedKey})
              /\ last.posted[1][ManagedKey] # last.before[ManagedKey]
        /\ Applied => config = last.posted[1]

\* A device is added to a document that has folders: the body has them too.
C16_Witness ==
    /\ Applied /\ last.op = "device" /\ last.changed /\ ~last.check_mode
    /\ last.before.folders # <<>>
    /\ last.posted[1].folders = last.before.folders
    /\ Len(last.posted[1].devices) = Len(last.before.devices) + 1

----------------------------------------------------------------------------
(* C17  Folder declared fields are applied                                 *)

\* C17: after a folder run that is not a dry run, has a state other than
\* absent and ended successfully, the daemon has the folder with the
\* declared id, with path, type, order, fsWatcherEnabled and ignorePerms as
\* declared and paused = true exactly when the declared state is pause.
C17_FolderDeclaredApplied ==
    ( /\ Ran /\ last.op = "folder" /\ last.params.state # "absent"
      /\ ~last.check_mode /\ last.exit = "exit_json" ) =>
        LET f == get_folder_config(last.params.id, config) IN
        /\ f # <<>>
        /\ f[1].path = last.params.path
        /\ f[1].type = last.params.type
        /\ f[1].order = last.params.order
        /\ f[1].fsWatcherEnabled = last.params.fs_watcher
        /\ f[1].ignorePerms = last.params.ignore_perms
        /\ f[1].paused = (last.params.state = "pause")

----------------------------------------------------------------------------
(* C20  Folder device reference resolution                                 *)

\* The ids of the fetched devices whose name is ref.
IdsNamed(ref) ==
    { last.before.devices[i].deviceID :
        i \in {j \in 1..Len(last.before.devices) : last.before.devices[j].name = ref} }

\* C20: in the folder the builder returns, a declared reference that is the
\* name of a fetched device is represented by the id of a device with that
\* name, a reference that is no device's name is there verbatim, nothing
\* else is there but the local id, the posted folder has the same list, and
\* the run ends successfully when every request is answered 200.
C20_ReferenceResolution ==
    FolderBuilt =>
        LET ids == Range(Ids(BuiltFolder.devices)) IN
        /\ \A ref \in Range(last.params.devices) :
              IF IdsNamed(ref) # {}
              THEN ids \cap IdsNamed(ref) # {}
              ELSE ref \in ids
        /\ \A d \in ids :
              \/ d = MyID
              \/ \E ref \in Range(last.params.devices) :
                    \/ IdsNamed(ref) = {} /\ d = ref
                    \/ d \in IdsNamed(ref)
        /\ last.posted # <<>> => Range(Ids(PostedFolder.devices)) = ids
        /\ AllAnswered200 => (last.exit = "exit_json" /\ ~Failed)

\* A folder is declared with the name of a known device and with a
\* reference nobody has: the daemon gets the id of the first and the second
\* as written.
C20_Witness ==
    /\ FolderBuilt /\ Applied
    /\ "laptop" \in Range(last.params.devices)
    /\ "ZZZZ-9999" \in Range(last.params.devices)
    /\ IdsNamed("laptop") = {"AAAA-1111"} /\ IdsNamed("ZZZZ-9999") = {}
    /\ Range(Ids(get_folder_config(last.params.id, config)[1].devices))
          = {"AAAA-1111", "ZZZZ-9999", MyID}

----------------------------------------------------------------------------
(* C18  Lost update under concurrent runs                                  *)

\* Position in the log of the request of process p with that method, 0 when
\* p did not issue it.
LogIndex(p, method) ==
    LET S == {i \in 1..Len(runners.log) :
                 runners.log[i].proc = p /\ runners.log[i].method = method}
    IN IF S = {} THEN 0 ELSE CHOOSE i \in S : TRUE

\* Both invocations fetched the configuration before either posted.
Overlapped ==
    \A p, q \in Procs :
        LogIndex(q, "POST") # 0 => LogIndex(p, "GET") < LogIndex(q, "POST")

\* Both invocations are over, each ended successfully with changed = true
\* after its POST was accepted.
BothApplied ==
    \A p \in Procs :
        /\ runners.proc[p].pc = "done"
        /\ runners.proc[p].exit = "exit_json"
        /\ runners.proc[p].changed
        /\ runners.proc[p].nPost = 1

\* What a document says about the entity process p manages.
EntityIn(p, doc) ==
    IF runners.proc[p].op = "gui"
    THEN << doc.gui >>
    ELSE LET idx == device_index(doc.devices, runners.proc[p].params.id)
         IN IF idx = 0 THEN <<>> ELSE << doc.devices[idx] >>

\* C18: when two invocations on different entities both end successfully
\* with changed = true, then, if both fetched before either posted, the
\* daemon holds the document of the one that posted last and the entity of
\* the other is as it was fetched, not as it was posted; if they did not
\* overlap, the daemon holds each entity as its invocation posted it.
C18_LostUpdate ==
    BothApplied =>
        IF Overlapped
        THEN \E first, second \in Procs :
                /\ LogIndex(first, "POST") < LogIndex(second, "POST")
                /\ config = runners.proc[second].posted[1]
                /\ EntityIn(second, config) # EntityIn(second, runners.proc[second].fetched)
                /\ EntityIn(first, config) = EntityIn(first, runners.proc[first].fetched)
                /\ EntityIn(first, config) # EntityIn(first, runners.proc[first].posted[1])
        ELSE \A p \in Procs :
                /\ EntityIn(p, config) = EntityIn(p, runners.proc[p].posted[1])
                /\ EntityIn(p, config) # EntityIn(p, runners.proc[p].fetched)

\* Two devices are added by overlapping invocations; both report changed and
\* the daemon has only one of them.
C18_Witness ==
    /\ BothApplied /\ Overlapped
    /\ \A p \in Procs : runners.proc[p].op = "device"
                        /\ runners.proc[p].params.state = "present"
                        /\ runners.proc[p].fetched.devices = <<>>
    /\ Len(config.devices) = 1

\* Two devices are added by invocations that follow each other; the daemon
\* has both.
C18_WitnessSequential ==
    /\ BothApplied /\ ~Overlapped
    /\ \A p \in Procs : runners.proc[p].op = "device"
                        /\ runners.proc[p].params.state = "present"
    /\ runners.proc["run_a"].fetched.devices = <<>>
    /\ Len(config.devices) = 2

----------------------------------------------------------------------------
(* C19  Endpoint resolution keeps explicit values                          *)

\* The operator gave the parameter a value.
Supplied(value) == value # None /\ value # ""

\* make_headers has been called at least once.
Resolved == endpoint.pc \in {"config_fetched", "posted", "failed"}

\* C19: with host and api_key both supplied no file is looked for or read
\* and every request carries those two values; a supplied host or api_key
\* is never replaced, and when the invocation does not fail the missing one
\* is the one of the file; a discovered host is "https://" + address when
\* the tls attribute is "true" and "http://" + address otherwise.
C19_EndpointResolution ==
    Resolved =>
        LET given == endpoint.given
            now   == endpoint.params
            fs    == endpoint.fs
            ok    == endpoint.pc # "failed"
        IN
        /\ (Supplied(given.host) /\ Supplied(given.api_key)) =>
              /\ endpoint.calls = <<>>
              /\ ok /\ endpoint.sent # <<>>
        /\ Supplied(given.host) => now.host = given.host
        /\ Supplied(given.api_key) => now.api_key = given.api_key
        /\ (ok /\ ~Supplied(given.host)) =>
              now.host = IF fs.tls # Absent /\ fs.tls = "true"
                         THEN concat("https://", fs.address)
                         ELSE concat("http://", fs.address)
        /\ (ok /\ ~Supplied(given.api_key)) => now.api_key = fs.apikey
        /\ \A i \in 1..Len(endpoint.sent) :
              /\ endpoint.sent[i].url.host = now.host
              /\ endpoint.sent[i].headers.X_Api_Key = now.api_key

\* Only the key is supplied and the file has no tls attribute: both requests
\* went to http:// + address with the supplied key.
C19_Witness ==
    /\ endpoint.pc = "posted"
    /\ ~Supplied(endpoint.given.host) /\ Supplied(endpoint.given.api_key)
    /\ endpoint.fs.tls = Absent
    /\ endpoint.params.host = "http://127.0.0.1:8384"
    /\ endpoint.params.api_key = endpoint.given.api_key
    /\ endpoint.params.api_key # endpoint.fs.apikey
    /\ Len(endpoint.sent) = 2

----------------------------------------------------------------------------
(* C21  Default label                                                      *)

\* The label the operator expects for the declared parameters.
DeclaredLabel ==
    IF last.params.label # None /\ last.params.label # ""
    THEN last.params.label ELSE last.params.id

\* The built folder, and the posted one when there is one, has that label.
LabelAsDeclared ==
    FolderBuilt =>
        /\ BuiltFolder.label = DeclaredLabel
        /\ last.posted # <<>> => PostedFolder.label = DeclaredLabel

\* The invocation created the folder: it was not in the fetched document and
\* the POST was accepted.
FolderCreated ==
    /\ Applied /\ last.op = "folder" /\ last.params.state # "absent"
    /\ FetchedFolder = <<>>

\* C21: the folder record the folder module builds has the declared label,
\* or the folder id when no label is declared; and after a run that created
\* a folder without a declared label, a run with the same parameters, not a
\* dry run and with every request answered 200, reports changed = false,
\* posts nothing and leaves the document alone.
C21_DefaultLabel ==
    /\ LabelAsDeclared
    /\ (FolderCreated /\ last.params.label = None) =>
          LET again == run_module("folder", last.params, FALSE, "ok", config) IN
          /\ again.exit = "exit_json" /\ ~again.changed
          /\ again.nPost = 0 /\ again.document = config

\* The second of two runs without a label, on a daemon that had no folder
\* and no device at first: the folder it meets has the id as label and is
\* what the builder returns, so nothing changes.
C21_Witness ==
    /\ runs = 2 /\ Reconciled /\ last.op = "folder" /\ ~last.check_mode
    /\ last.params.state # "absent" /\ last.params.label = None
    /\ last.before.devices = <<>> /\ Len(last.before.folders) = 1
    /\ FetchedFolder # <<>> /\ FetchedFolder[1].label = last.params.id
    /\ FetchedFolder[1] = BuiltFolder
    /\ ~last.changed /\ last.nPost = 0

----------------------------------------------------------------------------
(* C22  The creation-only field is required only for a creation            *)

\* C22: the device module (the folder module) with a state other than
\* absent, no name (no path) and an id that the daemon already has is not
\* refused with the validation message: it fetches the configuration and
\* reconciles; for a device, changed is true exactly when the paused flag
\* differs from "the declared state is pause".
C22_FieldOnlyForCreation ==
    ( /\ Ran /\ last.op \in {"device", "folder"}
      /\ CreationFieldMissing /\ FetchedIndex # 0 ) =>
        /\ last.msg \notin ValidationMessages
        /\ last.op = "device" =>
              /\ last.nGet = 1
              /\ Reconciled =>
                    last.changed =
                        ( last.before.devices[FetchedIndex].paused
                            # (last.params.state = "pause") )

----------------------------------------------------------------------------
(* C23  Deletion removes exactly the entity                                *)

\* The collection the module works on, in a document.
CollectionOf(doc) ==
    IF last.op = "device" THEN doc.devices ELSE doc.folders

IdOf(entry) == IF last.op = "device" THEN entry.deviceID ELSE entry.id

\* new is old without its entry at position idx, the others in their order.
WithoutEntry(old, new, idx) ==
    /\ Len(new) = Len(old) - 1
    /\ \A i \in 1..Len(new) : new[i] = IF i < idx THEN old[i] ELSE old[i + 1]

\* C23: the device or folder module with state absent, on an id found in
\* the fetched collection, reports changed = true; when it is not a dry run
\* it posts the fetched document with that collection less the entry of the
\* id, the other entries as they were and in their order; once the POST is
\* accepted the daemon has no entry with that id.
C23_DeletionExact ==
    ( /\ Reconciled /\ last.op \in {"device", "folder"}
      /\ last.params.state = "absent" /\ FetchedIndex # 0 ) =>
        /\ last.changed
        /\ ~last.check_mode =>
              /\ last.nPost = 1 /\ last.posted # <<>>
              /\ WithoutEntry(CollectionOf(last.before),
                              CollectionOf(last.posted[1]), FetchedIndex)
              /\ \A i \in 1..Len(CollectionOf(last.posted[1])) :
                    IdOf(CollectionOf(last.posted[1])[i]) # last.params.id
        /\ Applied =>
              /\ config = last.posted[1]
              /\ \A i \in 1..Len(CollectionOf(config)) :
                    IdOf(CollectionOf(config)[i]) # last.params.id

\* The first of two devices is removed: the second one is what is left.
C23_Witness ==
    /\ Applied /\ last.op = "device" /\ last.params.state = "absent"
    /\ Len(last.before.devices) = 2 /\ FetchedIndex = 1
    /\ config.devices = << last.before.devices[2] >>
    /\ config.folders = last.before.folders

----------------------------------------------------------------------------
(* C24  Reporting                                                          *)

\* The document the invocation posted or, in a dry run, the one the same
\* invocation posts when it is not a dry run; as <<document>> or <<>>.
PostedOrWouldBe ==
    IF last.check_mode
    THEN run_module(last.op, last.params, FALSE, "ok", last.before).posted
    ELSE last.posted

\* C24: a result carries a diff only when changed is true; its "before" is
\* the dump of the devices list, folders list or gui record as fetched, and
\* its "after" the dump of it as it is in the document that is posted or,
\* in a dry run, would be.
C24_Reporting ==
    (Ran /\ last.diff # <<>>) =>
        /\ last.changed
        /\ Len(last.diff) = 1
        /\ last.diff[1].before = [yaml |-> last.before[ManagedKey]]
        /\ PostedOrWouldBe # <<>>
        /\ last.diff[1].after = [yaml |-> PostedOrWouldBe[1][ManagedKey]]
        /\ last.diff[1].before # last.diff[1].after

\* A device run pauses a device of a list of two, in a dry run and not.
C24_Witness ==
    /\ Ran /\ last.op = "device" /\ last.diff # <<>> /\ last.changed
    /\ Len(last.before.devices) = 2
    /\ last.params.state = "pause" /\ FetchedIndex = 2
    /\ last.diff[1].before.yaml[2].paused = FALSE
    /\ last.diff[1].after.yaml[2].paused = TRUE
    /\ last.diff[1].after.yaml[1] = last.before.devices[1]

----------------------------------------------------------------------------
(* C25  Identifier uniqueness                                              *)

Distinct(ids) == \A i, j \in 1..Len(ids) : i # j => ids[i] # ids[j]

FolderIds(folders) == [i \in 1..Len(folders) |-> folders[i].id]

\* C25: the daemon's devices have pairwise distinct deviceIDs and its
\* folders pairwise distinct ids, after any sequence of device, folder and
\* GUI invocations, from documents in which they are.
C25_UniqueIds ==
    /\ Distinct(Ids(config.devices))
    /\ Distinct(FolderIds(config.folders))

\* After a device was added, a run declares an id the daemon already has
\* and the POST is accepted: the list still has every id once.
C25_Witness ==
    /\ runs = 2 /\ Applied /\ last.op = "device"
    /\ last.params.state # "absent" /\ FetchedIndex # 0
    /\ Len(config.devices) = 2 /\ Len(last.before.devices) = 2
    /\ Distinct(Ids(config.devices))
    /\ config.folders # <<>>

----------------------------------------------------------------------------
(* C26  A failed invocation never claims a change                          *)

\* C26: an invocation that ends as a failure reports changed = false, and
\* a result with changed = true that is not a dry run's means the POST was
\* accepted and the daemon holds the posted document.
C26_FailedNeverChanged ==
    /\ Failed => ~last.changed
    /\ (Ran /\ ~last.check_mode /\ last.changed) =>
          (Applied /\ config = last.posted[1])

====
